---- MODULE Spec2Model ----
(***************************************************************************)
(* Model of src/src/wiw-py/wheniwork.py: class HTTPSession, the session    *)
(* manager of a client for the WhenIWork web service, together with the    *)
(* token file ("sessioncookie") it persists its credential in.             *)
(*                                                                         *)
(* The program is single-threaded and synchronous, so every method is one  *)
(* atomic action.  What the remote service answers is an input of the      *)
(* action; every network request a method issues is appended to `calls`   *)
(* together with the client's headers and the file system at that moment.  *)
(*                                                                         *)
(* Python values:                                                          *)
(*   dict            a function from its keys (strings) to its values      *)
(*   None / a value  <<>> / <<v>>                                          *)
(*   False / str     [tag |-> "bool", b |-> FALSE] / [tag |-> "str", ...]  *)
(* requests.Session().headers starts with library defaults (User-Agent,    *)
(* Accept, ...) which no method of the class reads or changes; they are    *)
(* left out, so a fresh session's headers are the empty dict.              *)
(***************************************************************************)
EXTENDS Integers, Sequences, FiniteSets, TLC

VARIABLES
    fs,             \* PACKAGE_DATA directory: file name -> content
    alive,          \* TRUE iff __init__ returned a session object to the caller
    headers,        \* self.session.headers of the current session
    LOGGED,         \* self.LOGGED
    LOGIN_DETAILS,  \* self.LOGIN_DETAILS (<<>> while the attribute is unset)
    calls,          \* network requests issued by the last method invocation
    printed,        \* lines printed by the last method invocation
    raised,         \* exception the last method invocation ended with, or "None"
    ret,            \* value the last method invocation returned
    op              \* the last method invocation: name, arguments, pre-state

vars == <<fs, alive, headers, LOGGED, LOGIN_DETAILS, calls, printed, raised, ret, op>>

----------------------------------------------------------------------------
(* Bounds of the model *)

\* longest 'shifts' list the service returns
MaxShifts == 3

----------------------------------------------------------------------------
(* Python values *)

None == <<>>
Some(v) == <<v>>
EmptyDict == <<>>

PyFalse == [tag |-> "bool", b |-> FALSE]
PyTrue == [tag |-> "bool", b |-> TRUE]
PyStr(s) == [tag |-> "str", s |-> s]
PyNone == [tag |-> "None"]

\* Python truth value of False / True / a str
Truthy(v) ==
    \/ v.tag = "bool" /\ v.b
    \/ v.tag = "str" /\ v.s # ""

\* dict.update(new): keys of new override
Update(d, new) == new @@ d

----------------------------------------------------------------------------
(* The environment: token file, service responses, arguments *)

COOKIE == "sessioncookie"

\* tokens the service issues (opaque, non-empty)
Tokens == {"T1", "T2"}
\* what the token file can hold when a process starts
FileContents == Tokens \cup {""}
NoFiles == EmptyDict
InitialStores == {NoFiles} \cup {[f \in {COOKIE} |-> t] : t \in FileContents}

Emails == {"ann@example.com", "bob@example.com"}
Passwords == {"pw"}
LoginSecrets == {<<e, p>> : e \in Emails, p \in Passwords}
\* os.environ restricted to the two variables __init__ looks at
Environments ==
    {EmptyDict}
    \cup {[k \in {"WIW_EMAIL"} |-> e] : e \in Emails}
    \cup {[k \in {"WIW_PASSWORD"} |-> p] : p \in Passwords}
    \cup {[WIW_EMAIL |-> e, WIW_PASSWORD |-> p] : e \in Emails, p \in Passwords}

\* A response of the auth origin (login, people/me): the transport raises, or
\* the service answers; an answer with status 200 carries a token.
AuthResponses ==
    {[kind |-> "raise"]}
    \cup {[kind |-> "http", status_code |-> 401]}
    \cup {[kind |-> "http", status_code |-> 200, token |-> t] : t \in Tokens}

----------------------------------------------------------------------------
(* Execution context threaded through the methods of one invocation *)

Ctx(h, f, lg, ld) ==
    [headers |-> h, fs |-> f, LOGGED |-> lg, LOGIN_DETAILS |-> ld,
     calls |-> <<>>, printed |-> <<>>, raised |-> "None", ret |-> PyNone]

Raise(c, exc) == [c EXCEPT !.raised = exc]
Return(c, v) == [c EXCEPT !.ret = v]
Emit(c, line) == [c EXCEPT !.printed = Append(@, line)]

\* self.session.<method>(url, ...): the request leaves with the client's
\* current headers; the file system at that moment is recorded with it.
Request(c, method, url, data) ==
    [c EXCEPT !.calls = Append(@, [method |-> method, url |-> url, data |-> data,
                                   headers |-> c.headers, fs |-> c.fs])]

----------------------------------------------------------------------------
(* Credential store: the token file *)

\* _write_session that leaves the file as it is
_write_session_skipped(c) == c

\* _write_session: open(.., 'w') creates or truncates the file before the
\* argument of f.write is evaluated; a missing header raises KeyError inside
\* the with block and leaves the file empty.
_write_session(c) ==
    LET opened == [c EXCEPT !.fs = Update(@, [f \in {COOKIE} |-> ""])]
    IN  IF "Authorization" \in DOMAIN c.headers
        THEN [opened EXCEPT !.fs = Update(@, [f \in {COOKIE} |-> c.headers["Authorization"]])]
        ELSE Raise(opened, "KeyError")

\* _read_session: the token read is attached to the client before it is
\* returned; a missing file yields False.
_read_session(c) ==
    IF COOKIE \in DOMAIN c.fs
    THEN LET token == c.fs[COOKIE]
         IN  Return([c EXCEPT !.headers = Update(@, [Authorization |-> token])],
                    PyStr(token))
    ELSE Return(c, PyFalse)

----------------------------------------------------------------------------
(* Authentication *)

PROBE_URL == "https://login.api.wheniwork.com/people/me"
LOGIN_URL == "https://api.login.wheniwork.com/login"

\* token_login that writes the session before attaching the refreshed token
token_login_keeps_old(c, res) ==
    LET c1 == _read_session(c)
        token == c1.ret
    IN  IF ~Truthy(token) THEN Return(c1, PyFalse)
        ELSE
        LET c2 == [c1 EXCEPT !.headers = Update(@, [Authorization |-> token.s])]
            c3 == Request(c2, "GET", PROBE_URL, None)
        IN  IF res.kind = "raise" THEN Raise(c3, "ConnectionError")
            ELSE IF res.status_code # 200 THEN Return(c3, PyFalse)
            ELSE LET c7 == _write_session([c3 EXCEPT !.LOGGED = TRUE])
                 IN  IF c7.raised # "None" THEN c7 ELSE Return(c7, PyTrue)

\* token_login: res is what the service answers if the probe is issued
token_login(c, res) ==
    LET c1 == _read_session(c)
        token == c1.ret
    IN  IF ~Truthy(token) THEN Return(c1, PyFalse)
        ELSE
        LET c2 == [c1 EXCEPT !.headers = Update(@, [Authorization |-> token.s])]
            c3 == Request(c2, "GET", PROBE_URL, None)
        IN  IF res.kind = "raise" THEN Raise(c3, "ConnectionError")
            ELSE IF res.status_code # 200 THEN Return(c3, PyFalse)
            ELSE
            LET c4 == Emit(c3, "Refreshed session token.")
                new_token == res.token
                c5 == [c4 EXCEPT !.headers = Update(@, [Authorization |-> new_token])]
                c6 == [c5 EXCEPT !.LOGGED = TRUE]
                c7 == _write_session(c6)
            IN  IF c7.raised # "None" THEN c7 ELSE Return(c7, PyTrue)

\* credential_login that does not attach the token of the response
credential_login_no_attach(c, res) ==
    LET c1 == Request(c, "POST", LOGIN_URL,
                      Some([email |-> c.LOGIN_DETAILS[1], password |-> c.LOGIN_DETAILS[2]]))
    IN  IF res.kind = "raise" THEN Raise(c1, "ConnectionError")
        ELSE IF res.status_code # 200 THEN Return(c1, PyFalse)
        ELSE LET c5 == _write_session([c1 EXCEPT !.LOGGED = TRUE])
             IN  IF c5.raised # "None" THEN c5 ELSE Return(c5, PyTrue)

\* credential_login that attaches the password in place of the token
credential_login_attaches_password(c, res) ==
    LET c1 == Request(c, "POST", LOGIN_URL,
                      Some([email |-> c.LOGIN_DETAILS[1], password |-> c.LOGIN_DETAILS[2]]))
    IN  IF res.kind = "raise" THEN Raise(c1, "ConnectionError")
        ELSE IF res.status_code # 200 THEN Return(c1, PyFalse)
        ELSE
        LET c2 == [c1 EXCEPT !.LOGGED = TRUE]
            token == c.LOGIN_DETAILS[2]
            c4 == [c2 EXCEPT !.headers = Update(@, [Authorization |-> token])]
            c5 == _write_session(c4)
        IN  IF c5.raised # "None" THEN c5 ELSE Return(c5, PyTrue)

\* credential_login: res is what the service answers to the login request
credential_login(c, res) ==
    LET c1 == Request(c, "POST", LOGIN_URL,
                      Some([email |-> c.LOGIN_DETAILS[1], password |-> c.LOGIN_DETAILS[2]]))
    IN  IF res.kind = "raise" THEN Raise(c1, "ConnectionError")
        ELSE IF res.status_code # 200 THEN Return(c1, PyFalse)
        ELSE
        LET c2 == [c1 EXCEPT !.LOGGED = TRUE]
            c3 == Emit(c2, "Logged in. Setting authorization header...")
            token == res.token
            c4 == [c3 EXCEPT !.headers = Update(@, [Authorization |-> token])]
            c5 == _write_session(c4)
        IN  IF c5.raised # "None" THEN c5 ELSE Return(c5, PyTrue)

\* __init__ that logs in a second time when the first login was refused
Authenticate_retries(c, probe, login) ==
    LET t == token_login(c, probe)
    IN  IF t.raised # "None" THEN t
        ELSE IF ~Truthy(t.ret)
        THEN LET l1 == credential_login(t, login)
                 l == IF l1.raised = "None" /\ ~Truthy(l1.ret)
                      THEN credential_login(l1, login) ELSE l1
             IN  IF l.raised # "None" THEN l
                 ELSE LET w == _write_session(Emit(l, "Logged in with credentials."))
                      IN  IF w.raised # "None" THEN w ELSE Return(w, PyNone)
        ELSE Return(Emit(t, "Logged in with session token."), PyNone)

\* The part of __init__ after self.session = requests.Session(): the result
\* of credential_login is not looked at.
Authenticate(c, probe, login) ==
    LET t == token_login(c, probe)
    IN  IF t.raised # "None" THEN t
        ELSE IF ~Truthy(t.ret)
        THEN LET l == credential_login(t, login)
             IN  IF l.raised # "None" THEN l
                 ELSE LET w == _write_session(Emit(l, "Logged in with credentials."))
                      IN  IF w.raised # "None" THEN w ELSE Return(w, PyNone)
        ELSE Return(Emit(t, "Logged in with session token."), PyNone)

\* __init__ that reads the environment with empty-string defaults
\* (os.environ.get(.., '')) instead of requiring both variables
__init__env_defaults(login_details, environ, f, probe, login) ==
    LET c0 == Emit(Ctx(EmptyDict, f, FALSE, <<>>), "Initializing HTTP api session...")
        get(k) == IF k \in DOMAIN environ THEN environ[k] ELSE ""
    IN  IF login_details = None
        THEN Authenticate([c0 EXCEPT !.LOGIN_DETAILS = <<get("WIW_EMAIL"), get("WIW_PASSWORD")>>],
                          probe, login)
        ELSE Authenticate([c0 EXCEPT !.LOGIN_DETAILS = login_details[1]], probe, login)

\* __init__(location, login_details): environ is os.environ, f the package
\* data directory.  The class defines no LOGIN_DETAILS attribute, so reading
\* it while unset raises AttributeError.  location is not used.  The
\* package_data directory exists, so _get_package_data_dir returns it.
__init__(login_details, environ, f, probe, login) ==
    LET c0 == Emit(Ctx(EmptyDict, f, FALSE, <<>>), "Initializing HTTP api session...")
    IN  IF login_details = None
        THEN IF "WIW_EMAIL" \in DOMAIN environ /\ "WIW_PASSWORD" \in DOMAIN environ
             THEN Authenticate([c0 EXCEPT !.LOGIN_DETAILS =
                                   <<environ["WIW_EMAIL"], environ["WIW_PASSWORD"]>>],
                               probe, login)
             ELSE Raise(c0, "AttributeError")
        ELSE Authenticate([c0 EXCEPT !.LOGIN_DETAILS = login_details[1]], probe, login)

----------------------------------------------------------------------------
(* Domain operations *)

ShiftIds == {1, 2}
\* user_id "0" marks an unassigned shift
UserIds == {"0", "46724863"}
Shifts == [id : ShiftIds, user_id : UserIds]
ShiftLists == UNION {[1..n -> Shifts] : n \in 0..MaxShifts}

ErrorBody == [error |-> "unauthorized"]
Raises == {[kind |-> "raise"]}
Http(status, body) == [kind |-> "http", status_code |-> status, body |-> body]

\* answers of the shifts endpoint to list_open_shifts
OpenShiftResponses ==
    Raises \cup {Http(401, ErrorBody)}
    \cup {Http(200, [shifts |-> l]) : l \in ShiftLists}
\* answers to list_my_shifts and list_requests (returned as they are)
ListResponses ==
    Raises \cup {Http(401, ErrorBody)}
    \cup {Http(200, [shifts |-> l]) : l \in {<<>>, <<[id |-> 1, user_id |-> "46724863"]>>}}
UnassignResponses ==
    Raises \cup {Http(401, ErrorBody)}
    \cup {Http(200, [shifts |-> l]) : l \in {<<>>, <<[id |-> 1, user_id |-> "0"]>>}}
TakeResponses ==
    Raises \cup {Http(401, ErrorBody)}
    \cup {Http(200, [shift |-> [id |-> 1, is_open |-> o]]) : o \in BOOLEAN}

ShiftIdArgs == {None} \cup {Some(i) : i \in ShiftIds}
ShiftIdsArgs == {None, Some(<<>>), Some(<<1>>), Some(<<1, 2>>)}

PyJson(v) == [tag |-> "json", v |-> v]
PyResponse(res) == [tag |-> "Response", status_code |-> res.status_code, body |-> res.body]

SHIFTS_URL == "https://api.wheniwork.com/2/shifts"
REQUESTS_URL == "https://api.wheniwork.com/2/requests"
UNASSIGN_URL == "https://api.wheniwork.com/2/shifts/unassign"
TAKE_URL(shift_id) == <<"https://api.wheniwork.com/2/shifts/", shift_id, "/take">>

\* list_my_shifts: the user id of the query is a literal of the method
list_my_shifts(c, res) ==
    LET id == "46724863"
        c1 == Request(c, "GET", SHIFTS_URL, Some([user_id |-> id]))
    IN  IF res.kind = "raise" THEN Raise(c1, "ConnectionError")
        ELSE Return(c1, PyJson(res.body))

\* l.pop() in place of l.remove(x): drops the last element
ListRemove_pop(l, x) ==
    IF l = <<>> THEN <<>> ELSE SubSeq(l, 1, Len(l) - 1)

\* list.remove(x): drops the first element equal to x
RECURSIVE ListRemove(_, _)
ListRemove(l, x) ==
    IF l = <<>> THEN <<>>
    ELSE IF Head(l) = x THEN Tail(l)
    ELSE <<Head(l)>> \o ListRemove(Tail(l), x)

\* for shift in l: if shift['user_id'] != '0': l.remove(shift)
\* The for loop reads l[i] for i = 0, 1, ... until i reaches the current
\* length of l, while the body shortens l (i is 1-based here).
RECURSIVE OpenShiftsLoop(_, _)
OpenShiftsLoop(l, i) ==
    IF i > Len(l) THEN l
    ELSE LET shift == l[i]
         IN  IF shift.user_id # "0"
             THEN OpenShiftsLoop(ListRemove(l, shift), i + 1)
             ELSE OpenShiftsLoop(l, i + 1)

list_open_shifts(c, res) ==
    LET c1 == Request(c, "GET", SHIFTS_URL,
                      Some([include_allopen |-> "true", include_swaps |-> "true",
                            trim_openshifts |-> "false"]))
    IN  IF res.kind = "raise" THEN Raise(c1, "ConnectionError")
        ELSE IF "shifts" \notin DOMAIN res.body THEN Raise(c1, "KeyError")
        ELSE Return(c1, PyJson([res.body EXCEPT !["shifts"] = OpenShiftsLoop(@, 1)]))

list_requests(c, res) ==
    LET c1 == Request(c, "GET", REQUESTS_URL, None)
    IN  IF res.kind = "raise" THEN Raise(c1, "ConnectionError")
        ELSE Return(c1, PyJson(res.body))

\* release_shift that rejects only the call with neither argument
release_shift_both_allowed(c, shift_id, shift_ids, res) ==
    IF shift_id = None /\ shift_ids = None
    THEN Raise(c, "Exception")
    ELSE
    LET id_list == IF shift_id = None THEN shift_ids[1] ELSE <<shift_id[1]>>
        c1 == [c EXCEPT !.headers = Update(@, [k \in {"Content-type"} |-> "application/json"])]
        c2 == Request(c1, "POST", UNASSIGN_URL, Some([shift_ids |-> id_list]))
    IN  IF res.kind = "raise" THEN Raise(c2, "ConnectionError")
        ELSE IF "shifts" \notin DOMAIN res.body
        THEN Return(Emit(c2, res.body), PyFalse)
        ELSE Return(Emit(c2, res.body), PyResponse(res))

\* release_shift: original_headers is a second name for the dict object that
\* session.headers refers to, so headers.update changes what it names too and
\* the final assignment puts the same, updated, object back.
release_shift(c, shift_id, shift_ids, res) ==
    IF (shift_id = None /\ shift_ids = None) \/ (shift_id # None /\ shift_ids # None)
    THEN Raise(c, "Exception")
    ELSE
    LET id_list == IF shift_id = None THEN shift_ids[1] ELSE <<shift_id[1]>>
        c1 == [c EXCEPT !.headers = Update(@, [k \in {"Content-type"} |-> "application/json"])]
        original_headers == c1.headers
        c2 == Request(c1, "POST", UNASSIGN_URL, Some([shift_ids |-> id_list]))
    IN  IF res.kind = "raise" THEN Raise(c2, "ConnectionError")
        ELSE
        LET c3 == Emit(c2, res.body)
            c4 == [c3 EXCEPT !.headers = original_headers]
        IN  IF "shifts" \notin DOMAIN res.body
            THEN Return(Emit(c4, <<"Failed to release shift ", shift_id, ".">>), PyFalse)
            ELSE Return(c4, PyResponse(res))

\* take_shift that prepares the headers before it checks its argument
take_shift_late_check(c, shift_id, res) ==
    LET c1 == [c EXCEPT !.headers = Update(@, [k \in {"Content-type"} |-> "application/json"])]
    IN  IF shift_id = None THEN Raise(c1, "Exception")
        ELSE
        LET c2 == Request(c1, "POST", TAKE_URL(shift_id[1]), None)
        IN  IF res.kind = "raise" THEN Raise(c2, "ConnectionError")
            ELSE IF "shift" \notin DOMAIN res.body
            THEN Return(Emit(c2, res.body), PyFalse)
            ELSE Return(Emit(c2, res.body), PyResponse(res))

\* take_shift: original_headers as in release_shift
take_shift(c, shift_id, res) ==
    IF shift_id = None THEN Raise(c, "Exception")
    ELSE
    LET c1 == [c EXCEPT !.headers = Update(@, [k \in {"Content-type"} |-> "application/json"])]
        original_headers == c1.headers
        c2 == Request(c1, "POST", TAKE_URL(shift_id[1]), None)
    IN  IF res.kind = "raise" THEN Raise(c2, "ConnectionError")
        ELSE
        LET c3 == Emit(c2, res.body)
            c4 == [c3 EXCEPT !.headers = original_headers]
        IN  IF "shift" \notin DOMAIN res.body
            THEN Return(Emit(c4, <<"Failed to take shift ", shift_id, ".">>), PyFalse)
            ELSE Return(Emit(c4, <<"Took shift ", shift_id, ".">>), PyResponse(res))

----------------------------------------------------------------------------
(* The state machine *)

\* the state an invocation leaves behind
Leaves(c) ==
    /\ fs' = c.fs
    /\ headers' = c.headers
    /\ LOGGED' = c.LOGGED
    /\ LOGIN_DETAILS' = c.LOGIN_DETAILS
    /\ calls' = c.calls
    /\ printed' = c.printed
    /\ raised' = c.raised
    /\ ret' = c.ret

\* the context a method of the live session starts in
Self == Ctx(headers, fs, LOGGED, LOGIN_DETAILS)

\* what op records of every invocation
Pre(name) == [name |-> name, fs |-> fs, headers |-> headers, alive |-> alive]

Init ==
    /\ fs \in InitialStores
    /\ alive = FALSE
    /\ headers = EmptyDict
    /\ LOGGED = FALSE
    /\ LOGIN_DETAILS = <<>>
    /\ calls = <<>>
    /\ printed = <<>>
    /\ raised = "None"
    /\ ret = PyNone
    /\ op = [name |-> "start"]

\* A process starts and constructs its HTTPSession (main, line 226); the
\* token file is what earlier processes left.
Construct ==
    /\ op.name \in {"start", "exit"}
    /\ \E login_details \in {None} \cup {Some(d) : d \in LoginSecrets},
       environ \in Environments, probe \in AuthResponses, login \in AuthResponses :
        LET c == __init__(login_details, environ, fs, probe, login)
        IN  /\ Leaves(c)
            /\ alive' = (c.raised = "None")
            /\ op' = Pre("__init__") @@
                     [login_details |-> login_details, environ |-> environ,
                      probe |-> probe, login |-> login]

\* The process ends, after its last call or with the exception that escaped;
\* its session object is gone, the token file stays.
Exit ==
    /\ op.name \notin {"start", "exit"}
    /\ alive' = FALSE
    /\ headers' = EmptyDict
    /\ LOGGED' = FALSE
    /\ LOGIN_DETAILS' = <<>>
    /\ calls' = <<>>
    /\ printed' = <<>>
    /\ raised' = "None"
    /\ ret' = PyNone
    /\ op' = [name |-> "exit"]
    /\ UNCHANGED fs

ListMyShifts ==
    /\ alive
    /\ \E res \in ListResponses :
        /\ Leaves(list_my_shifts(Self, res))
        /\ op' = Pre("list_my_shifts") @@ [res |-> res]
    /\ UNCHANGED alive

ListOpenShifts ==
    /\ alive
    /\ \E res \in OpenShiftResponses :
        /\ Leaves(list_open_shifts(Self, res))
        /\ op' = Pre("list_open_shifts") @@ [res |-> res]
    /\ UNCHANGED alive

ListRequests ==
    /\ alive
    /\ \E res \in ListResponses :
        /\ Leaves(list_requests(Self, res))
        /\ op' = Pre("list_requests") @@ [res |-> res]
    /\ UNCHANGED alive

ReleaseShift ==
    /\ alive
    /\ \E shift_id \in ShiftIdArgs, shift_ids \in ShiftIdsArgs, res \in UnassignResponses :
        /\ Leaves(release_shift(Self, shift_id, shift_ids, res))
        /\ op' = Pre("release_shift") @@
                 [shift_id |-> shift_id, shift_ids |-> shift_ids, res |-> res]
    /\ UNCHANGED alive

TakeShift ==
    /\ alive
    /\ \E shift_id \in ShiftIdArgs, res \in TakeResponses :
        /\ Leaves(take_shift(Self, shift_id, res))
        /\ op' = Pre("take_shift") @@ [shift_id |-> shift_id, res |-> res]
    /\ UNCHANGED alive

Next ==
    \/ Construct
    \/ ListMyShifts
    \/ ListOpenShifts
    \/ ListRequests
    \/ ReleaseShift
    \/ TakeShift
    \/ Exit

Spec == Init /\ [][Next]_vars

----------------------------------------------------------------------------
(* Properties *)

\* the Authorization header of a header dict, None if there is none
AuthOf(h) == IF "Authorization" \in DOMAIN h THEN Some(h["Authorization"]) ELSE None
\* the stored token of a file system, None if there is no token file
StoredToken(f) == IF COOKIE \in DOMAIN f THEN Some(f[COOKIE]) ELSE None
\* number of requests the last invocation sent to url
CallsTo(url) == Cardinality({i \in DOMAIN calls : calls[i].url = url})

Constructed == op.name = "__init__"
\* the construction had a login secret: given, or both variables set
HasSecret ==
    \/ op.login_details # None
    \/ "WIW_EMAIL" \in DOMAIN op.environ /\ "WIW_PASSWORD" \in DOMAIN op.environ
ProbeAccepts == op.probe.kind = "http" /\ op.probe.status_code = 200
LoginSucceeds == op.login.kind = "http" /\ op.login.status_code = 200
\* the login request was issued and answered with a non-success status
LoginRejected ==
    /\ Constructed
    /\ CallsTo(LOGIN_URL) > 0
    /\ op.login.kind = "http" /\ op.login.status_code # 200
DomainOps == {"list_my_shifts", "list_open_shifts", "list_requests",
              "release_shift", "take_shift"}

\* C1: construction over a stored non-empty token that the probe accepts with
\* a refreshed token issues exactly one probe request and no login request,
\* returns, and leaves the refreshed token both in the token file and as the
\* client's Authorization header.
C1_AcceptedTokenIsRefreshed ==
    (/\ Constructed /\ HasSecret
     /\ StoredToken(op.fs) \notin {None, Some("")}
     /\ ProbeAccepts)
    => /\ CallsTo(PROBE_URL) = 1 /\ CallsTo(LOGIN_URL) = 0 /\ Len(calls) = 1
       /\ raised = "None" /\ alive
       /\ StoredToken(fs) = Some(op.probe.token)
       /\ AuthOf(headers) = Some(op.probe.token)

C1_Witness ==
    /\ Constructed /\ HasSecret /\ ProbeAccepts
    /\ StoredToken(op.fs) = Some("T1") /\ op.probe.token = "T2"
    /\ StoredToken(fs) = Some("T2")

\* C2: construction without a token file issues exactly one login request and
\* no probe request; if the login succeeds, construction returns and the token
\* of the login response is the content of the token file and the client's
\* Authorization header.
C2_AbsentTokenLogsIn ==
    (Constructed /\ HasSecret /\ StoredToken(op.fs) = None)
    => /\ CallsTo(LOGIN_URL) = 1 /\ CallsTo(PROBE_URL) = 0 /\ Len(calls) = 1
       /\ LoginSucceeds =>
            /\ raised = "None" /\ alive
            /\ StoredToken(fs) = Some(op.login.token)
            /\ AuthOf(headers) = Some(op.login.token)

C2_Witness ==
    /\ Constructed /\ HasSecret /\ StoredToken(op.fs) = None /\ LoginSucceeds
    /\ StoredToken(fs) = Some("T2") /\ alive

\* C3: when the login request of a construction is answered with a
\* non-success status, the construction fails: no session is returned and no
\* successful credential login is reported.
C3_RejectedLoginFailsConstruction ==
    LoginRejected
    => /\ raised # "None" /\ ~alive
       /\ \A i \in DOMAIN printed : printed[i] # "Logged in with credentials."

\* C4: when the login request of a construction is answered with a
\* non-success status, the token file is what it was before the construction.
C4_RejectedLoginLeavesStore ==
    LoginRejected => fs = op.fs

\* C5: construction without login_details and without both WIW_EMAIL and
\* WIW_PASSWORD fails before any request is issued and before the token file
\* is read (a read would attach its content to the client) or written.
C5_NoSecretFailsFirst ==
    (Constructed /\ ~HasSecret)
    => /\ raised # "None" /\ ~alive
       /\ calls = <<>>
       /\ fs = op.fs
       /\ headers = EmptyDict

C5_Witness ==
    /\ Constructed /\ op.login_details = None
    /\ DOMAIN op.environ = {"WIW_EMAIL"}
    /\ StoredToken(op.fs) = Some("T1")
    /\ raised # "None"

\* C6: a domain operation on a session that is not authenticated (LOGGED is
\* False) fails with an error and issues no request.
C6_UnauthenticatedOpsFail ==
    (op.name \in DomainOps /\ ~LOGGED)
    => raised # "None" /\ calls = <<>>

\* C7: every request (probe, login, domain operation) leaves with an
\* Authorization header equal to the token in the token file at that moment,
\* no header and no file counting as equal.
C7_RequestTokenIsStoredToken ==
    \A i \in DOMAIN calls : AuthOf(calls[i].headers) = StoredToken(calls[i].fs)

C7_Witness ==
    /\ op.name \in DomainOps /\ LOGGED
    /\ Len(calls) = 1
    /\ AuthOf(calls[1].headers) = Some("T2")
    /\ StoredToken(calls[1].fs) = Some("T2")

\* C8: the collection list_open_shifts returns holds no shift whose user_id
\* is not "0".
C8_OnlyOpenShiftsReturned ==
    (op.name = "list_open_shifts" /\ raised = "None")
    => \A i \in DOMAIN ret.v.shifts : ret.v.shifts[i].user_id = "0"

\* C9: release_shift with both shift_id and shift_ids, or with neither,
\* raises before any request is issued and leaves the client's headers and
\* the token file unchanged.
C9_ReleaseUsageError ==
    (/\ op.name = "release_shift"
     /\ (op.shift_id = None) = (op.shift_ids = None))
    => /\ raised = "Exception"
       /\ calls = <<>>
       /\ headers = op.headers
       /\ fs = op.fs

C9_Witness ==
    /\ op.name = "release_shift"
    /\ op.shift_id # None /\ op.shift_ids # None
    /\ op.res.kind = "http"
    /\ raised = "Exception"

\* C10: take_shift without a shift id raises before any request is issued
\* and leaves the client's headers unchanged.
C10_TakeUsageError ==
    (op.name = "take_shift" /\ op.shift_id = None)
    => /\ raised = "Exception"
       /\ calls = <<>>
       /\ headers = op.headers

C10_Witness ==
    /\ op.name = "take_shift" /\ op.shift_id = None
    /\ op.res.kind = "http"
    /\ raised = "Exception"
    /\ "Content-type" \notin DOMAIN op.headers

\* A result the caller reads as success: a Response object, whose truth value
\* is its ok flag (status below 400); False is the negative result.
Positive(r) == r.tag = "Response" /\ r.status_code < 400
\* release_shift was called with exactly one of shift_id and shift_ids
ReleaseArgsValid == (op.shift_id = None) # (op.shift_ids = None)

\* C11: release_shift with valid arguments, once the service has answered,
\* returns without raising; the result is positive exactly when the answer
\* holds a non-empty 'shifts' collection and negative when 'shifts' is
\* missing or empty.
C11_ReleaseResultReflectsShifts ==
    (/\ op.name = "release_shift" /\ ReleaseArgsValid
     /\ op.res.kind = "http")
    => /\ raised = "None"
       /\ Positive(ret) <=>
            ("shifts" \in DOMAIN op.res.body /\ op.res.body["shifts"] # <<>>)
       /\ Positive(ret) \/ ret = PyFalse

\* C12: take_shift with a shift id, once the service has answered, returns
\* without raising; the result is positive exactly when the answer holds a
\* 'shift' record whose is_open is false.
C12_TakeResultReflectsIsOpen ==
    (/\ op.name = "take_shift" /\ op.shift_id # None
     /\ op.res.kind = "http")
    => /\ raised = "None"
       /\ Positive(ret) <=>
            ("shift" \in DOMAIN op.res.body /\ ~op.res.body["shift"].is_open)
       /\ Positive(ret) \/ ret = PyFalse

\* C13: after release_shift or take_shift, however it ended, the client's
\* headers are what they were before the call.
C13_MutatingOpsRestoreHeaders ==
    op.name \in {"release_shift", "take_shift"} => headers = op.headers

\* The user id the service knows an account by; the ids of different
\* accounts differ.
AccountId(email) ==
    IF email = "ann@example.com" THEN "46724863" ELSE "51000007"

\* C14: the shifts query of list_my_shifts on an authenticated session
\* carries the user id of the account the session logged in as.
C14_MyShiftsQueriesOwnIdentity ==
    (op.name = "list_my_shifts" /\ LOGGED)
    => \A i \in DOMAIN calls :
           calls[i].data[1].user_id = AccountId(LOGIN_DETAILS[1])

\* the probe was issued and answered with a non-success status
ProbeRejected ==
    /\ Constructed
    /\ CallsTo(PROBE_URL) > 0
    /\ op.probe.kind = "http" /\ op.probe.status_code # 200

\* what is persisted in a file system: the text of the token file, none
\* ("") when the file is empty or missing
Content(f) == IF COOKIE \in DOMAIN f THEN f[COOKIE] ELSE ""
\* tokens the service returned to the requests the construction issued
ReturnedTokens ==
    (IF CallsTo(PROBE_URL) > 0 /\ ProbeAccepts THEN {op.probe.token} ELSE {})
    \cup (IF CallsTo(LOGIN_URL) > 0 /\ LoginSucceeds THEN {op.login.token} ELSE {})

\* C15: in every state the content of the token file is what it was before
\* the last invocation or a token the service returned to a probe or login of
\* that invocation, and it is never the email or the password.
C15_OnlyTokensPersisted ==
    /\ Constructed => Content(fs) \in {Content(op.fs)} \cup ReturnedTokens
    /\ op.name \in DomainOps => Content(fs) = Content(op.fs)
    /\ Content(fs) \notin Emails \cup Passwords
    /\ Constructed /\ HasSecret =>
           /\ Content(fs) # LOGIN_DETAILS[1]
           /\ Content(fs) # LOGIN_DETAILS[2]

C15_Witness ==
    /\ Constructed /\ HasSecret
    /\ Content(op.fs) = "T1"
    /\ ProbeRejected /\ LoginSucceeds
    /\ Content(fs) = "T2"

\* C16: once the probe has rejected the stored token, that token is no longer
\* the client's Authorization header: not on the login request, and, unless
\* a login response set it again, not after the construction.
C16_RejectedTokenDiscarded ==
    ProbeRejected
    => /\ \A i \in DOMAIN calls :
              calls[i].url = LOGIN_URL => AuthOf(calls[i].headers) # StoredToken(op.fs)
       /\ ~LoginSucceeds => AuthOf(headers) # StoredToken(op.fs)

OpenShift(shift) == shift.user_id = "0"

\* C17: the shifts with user_id "0" of the response are all in the collection
\* list_open_shifts returns, as often as in the response and in the same
\* order.
C17_OpenShiftsKept ==
    (op.name = "list_open_shifts" /\ raised = "None")
    => SelectSeq(ret.v.shifts, OpenShift) = SelectSeq(op.res.body["shifts"], OpenShift)

C17_Witness ==
    /\ op.name = "list_open_shifts" /\ raised = "None"
    /\ Len(op.res.body["shifts"]) = 3
    /\ ~OpenShift(op.res.body["shifts"][1])
    /\ OpenShift(op.res.body["shifts"][2])
    /\ op.res.body["shifts"][3] = op.res.body["shifts"][2]
    /\ Len(ret.v.shifts) = 2

\* C18: the filtering loop of list_open_shifts applied to the collection it
\* returned leaves that collection unchanged.
C18_FilterIdempotent ==
    (op.name = "list_open_shifts" /\ raised = "None")
    => OpenShiftsLoop(ret.v.shifts, 1) = ret.v.shifts

\* C19: a construction issues at most one probe and at most one login, the
\* login only when no probe was accepted and never before the probe; a domain
\* operation issues at most one request.
C19_NothingRetried ==
    /\ Constructed =>
        /\ CallsTo(PROBE_URL) <= 1
        /\ CallsTo(LOGIN_URL) <= 1
        /\ Len(calls) = CallsTo(PROBE_URL) + CallsTo(LOGIN_URL)
        /\ CallsTo(LOGIN_URL) > 0 => ~(CallsTo(PROBE_URL) > 0 /\ ProbeAccepts)
        /\ \A i, j \in DOMAIN calls :
               (calls[i].url = LOGIN_URL /\ calls[j].url = PROBE_URL) => j < i
    /\ op.name \in DomainOps => Len(calls) <= 1

C19_Witness ==
    /\ Constructed /\ ProbeRejected
    /\ Len(calls) = 2
    /\ calls[1].url = PROBE_URL /\ calls[2].url = LOGIN_URL
    /\ op.login.kind = "http" /\ op.login.status_code # 200

\* C20: construction over an empty token file issues no probe and one login,
\* and none of its requests carries the empty string as Authorization header.
C20_EmptyTokenLikeAbsent ==
    (Constructed /\ HasSecret /\ StoredToken(op.fs) = Some(""))
    => /\ CallsTo(PROBE_URL) = 0 /\ CallsTo(LOGIN_URL) = 1
       /\ \A i \in DOMAIN calls : AuthOf(calls[i].headers) # Some("")

====
